---- MODULE Spec2Model ----
(***************************************************************************)
(* Privacy-preserving linear regression (sunscreen-linear-regression).     *)
(*                                                                         *)
(* Two specifications:                                                     *)
(*   SpecMath  the statistical circuit library of src/src/math.rs, applied *)
(*             to bounded input vectors (pure functions);                  *)
(*   Spec      the Client / Server / LinearRegression flow of              *)
(*             src/src/model.rs.                                           *)
(*                                                                         *)
(* Numbers are the circuit type CNum = Cipher<Rational>: a pair <<n, d>>   *)
(* of integers.  A pair with d = 0 is what a division by a zero-valued     *)
(* rational leaves behind (it decrypts to NaN or an infinity).             *)
(***************************************************************************)
EXTENDS Integers, Sequences, FiniteSets, TLC

\* math.rs:11  pub const VEC_SIZE: usize = 5;
VEC_SIZE == 5

\* Largest element of a generic input vector.
MaxVal == 1
\* Largest magnitude of the intercept / slope of a generated linear relation.
MaxCoef == 2

(***************************************************************************)
(* Rational arithmetic                                                     *)
(***************************************************************************)
Abs(n) == IF n < 0 THEN -n ELSE n

Sign(n) == IF n < 0 THEN -1 ELSE IF n > 0 THEN 1 ELSE 0

RECURSIVE Gcd(_, _)
Gcd(a, b) == IF b = 0 THEN a ELSE Gcd(b, a % b)

\* The value a Rational stands for: lowest terms, positive denominator.
\* A zero denominator keeps only the sign of the numerator (inf, -inf, NaN).
Norm(r) ==
    IF r[2] = 0 THEN <<Sign(r[1]), 0>>
    ELSE LET g == Gcd(Abs(r[1]), Abs(r[2]))
             s == Sign(r[2])
         IN  <<(s * r[1]) \div g, (s * r[2]) \div g>>

\* Rational::try_from(f64) for an integral value.
FromInt(n) == <<n, 1>>

RAdd(a, b) == Norm(<<a[1] * b[2] + b[1] * a[2], a[2] * b[2]>>)

RSub(a, b) == Norm(<<a[1] * b[2] - b[1] * a[2], a[2] * b[2]>>)

RMul(a, b) == Norm(<<a[1] * b[1], a[2] * b[2]>>)

RDiv(a, b) == Norm(<<a[1] * b[2], a[2] * b[1]>>)

IsNumber(r) == r[2] # 0

(***************************************************************************)
(* The statistical circuit library (math.rs)                               *)
(***************************************************************************)
RECURSIVE MeanLoop(_, _, _)
MeanLoop(input, i, sum) ==
    IF i > VEC_SIZE THEN sum
    ELSE MeanLoop(input, i + 1, RAdd(sum, input[i]))

mean_impl(input, divisor) == RMul(MeanLoop(input, 2, input[1]), divisor)

RECURSIVE CovLoop(_, _, _, _, _, _)
CovLoop(x, y, mean_x, mean_y, i, cov) ==
    IF i > VEC_SIZE THEN cov
    ELSE CovLoop(x, y, mean_x, mean_y, i + 1,
                 RAdd(cov, RMul(RSub(x[i], mean_x), RSub(y[i], mean_y))))

covariance_impl(x, y, divisor) ==
    LET mean_x == mean_impl(x, divisor)
        mean_y == mean_impl(y, divisor)
        cov0   == RMul(RSub(x[1], mean_x), RSub(y[1], mean_y))
    IN  RMul(CovLoop(x, y, mean_x, mean_y, 2, cov0), divisor)

\* A mean of absolute errors, which the circuit does not compute.
RECURSIVE MaeAbsLoop(_, _, _, _)
MaeAbsLoop(x, y, i, sum_error) ==
    IF i > VEC_SIZE THEN sum_error
    ELSE LET e == RSub(x[i], y[i])
         IN  MaeAbsLoop(x, y, i + 1, RAdd(sum_error, <<Abs(e[1]), e[2]>>))

mean_absolute_error_abs(x, y, divisor) ==
    RMul(MaeAbsLoop(x, y, 1, <<0, 1>>), divisor)

RECURSIVE MaeLoop(_, _, _, _)
MaeLoop(x, y, i, sum_error) ==
    IF i > VEC_SIZE THEN sum_error
    ELSE MaeLoop(x, y, i + 1, RSub(RAdd(sum_error, x[i]), y[i]))

mean_absolute_error_impl(x, y, divisor) ==
    RMul(MaeLoop(x, y, 2, RSub(x[1], y[1])), divisor)

RECURSIVE VarLoop(_, _, _, _)
VarLoop(x, m, i, var) ==
    IF i > VEC_SIZE THEN var
    ELSE VarLoop(x, m, i + 1, RAdd(var, RMul(RSub(x[i], m), RSub(x[i], m))))

\* variance_impl without the final multiplication by the divisor.
variance_undivided(x, divisor) ==
    LET m    == mean_impl(x, divisor)
        var0 == RMul(RSub(x[1], m), RSub(x[1], m))
    IN  VarLoop(x, m, 2, var0)

variance_impl(x, divisor) ==
    LET m    == mean_impl(x, divisor)
        var0 == RMul(RSub(x[1], m), RSub(x[1], m))
    IN  RMul(VarLoop(x, m, 2, var0), divisor)

\* fit_impl whose intercept forgets to multiply the slope by mean(x).
fit_intercept_off(x, y, divisor) ==
    LET coefficient == RDiv(covariance_impl(x, y, divisor), variance_impl(x, divisor))
        intercept   == RSub(mean_impl(y, divisor), coefficient)
    IN  <<intercept, coefficient>>

\* Returns <<intercept, coefficient>>.
fit_impl(x, y, divisor) ==
    LET coefficient == RDiv(covariance_impl(x, y, divisor), variance_impl(x, divisor))
        intercept   == RSub(mean_impl(y, divisor),
                            RMul(coefficient, mean_impl(x, divisor)))
    IN  <<intercept, coefficient>>

predict_impl(intercept, coefficient, x) == RAdd(intercept, RMul(coefficient, x))

\* math.rs:127 DIVISOR and model.rs:130 divisor: 1.0 / VEC_SIZE as f64, which
\* Rational::try_from turns into the rational 1 / VEC_SIZE.
DIVISOR == <<1, VEC_SIZE>>

(***************************************************************************)
(* Client (model.rs:20-68)                                                 *)
(***************************************************************************)
\* A plaintext f64 is a pair <<n, d>>: the integer n is <<n, 1>>, NaN is <<0, 0>>.
F64(n) == <<n, 1>>

NAN == <<0, 0>>

F64Vec(v) == [i \in 1..Len(v) |-> F64(v[i])]

\* Rational::try_from(f64) is an Err for NaN and the infinities.
Encodable(f) == f[2] # 0

TryFrom(f) == Norm(f)

\* A ciphertext: the key it was encrypted under and the rationals it holds
\* (one for a scalar, VEC_SIZE for a vector).
Ct(k, val) == [key |-> k, val |-> val]

UNWRAP_MSG == "called Result::unwrap() on an Err value"

LENGTH_MSG == "Failed to convert to array of length 5"

INDEX_MSG == "index out of bounds"

\* model.rs:43-46
encrypt(pk, input) ==
    IF ~Encodable(input)
    THEN [panic |-> <<UNWRAP_MSG>>, ct |-> <<>>]
    ELSE [panic |-> <<>>, ct |-> <<Ct(pk.id, <<TryFrom(input)>>)>>]

\* An encrypt_vec that cuts a long input to VEC_SIZE elements and fills a short
\* one with zeros instead of rejecting it.
encrypt_vec_resizing(pk, inputs) ==
    IF \E i \in 1..Len(inputs) : ~Encodable(inputs[i])
    THEN [panic |-> <<UNWRAP_MSG>>, ct |-> <<>>]
    ELSE [panic |-> <<>>,
          ct |-> <<Ct(pk.id, [i \in 1..VEC_SIZE |->
                                IF i <= Len(inputs) THEN TryFrom(inputs[i])
                                ELSE F64(0)])>>]

\* model.rs:48-58: the map's unwrap runs while the Vec is collected, then
\* try_into checks the length.
encrypt_vec(pk, inputs) ==
    IF \E i \in 1..Len(inputs) : ~Encodable(inputs[i])
    THEN [panic |-> <<UNWRAP_MSG>>, ct |-> <<>>]
    ELSE IF Len(inputs) # VEC_SIZE
    THEN [panic |-> <<LENGTH_MSG>>, ct |-> <<>>]
    ELSE [panic |-> <<>>,
          ct |-> <<Ct(pk.id, [i \in 1..VEC_SIZE |-> TryFrom(inputs[i])])>>]

\* model.rs:60-63.  A ciphertext of another key makes the runtime either
\* report an error (unwrap panics) or hand back a meaningless value.
decrypt(private_key, ciphertext, reports_error) ==
    IF ciphertext.key = private_key.id
    THEN [panic |-> <<>>, value |-> <<ciphertext.val[1]>>]
    ELSE IF reports_error
    THEN [panic |-> <<UNWRAP_MSG>>, value |-> <<>>]
    ELSE [panic |-> <<>>, value |-> <<NAN>>]

RECURSIVE RmseLoop(_, _, _, _)
RmseLoop(actual, predicted, i, sum_error) ==
    IF i > Len(actual) THEN sum_error
    ELSE RmseLoop(actual, predicted, i + 1,
                  RAdd(sum_error, RMul(RSub(predicted[i], actual[i]),
                                       RSub(predicted[i], actual[i]))))

\* model.rs:8-18.  predicted[i] is read for every i < actual.len(); the value
\* is the mean squared error, whose square root the code returns.
root_mean_squared_error(actual, predicted) ==
    IF Len(predicted) < Len(actual)
    THEN [panic |-> <<INDEX_MSG>>, value |-> <<>>]
    ELSE [panic |-> <<>>,
          value |-> <<RDiv(RmseLoop(actual, predicted, 1, F64(0)),
                           F64(Len(actual)))>>]

\* model.rs:65-67
evaluate(y_test, predicted) == root_mean_squared_error(y_test, predicted)

(***************************************************************************)
(* LinearRegression (model.rs:103-185)                                     *)
(***************************************************************************)
\* model.rs:111-123: every new() compiles the fit and predict programs.
LinearRegression_new(client_public_key) ==
    [client_public_key |-> client_public_key, compiled |-> 1]

\* A fit that runs the program a second time when the first run fails.
fit_retrying(self, x_values, y_values, ok) ==
    LET k           == self.client_public_key.id
        enc_divisor == Ct(k, <<DIVISOR>>)
        args        == <<x_values, y_values, enc_divisor>>
        results     == fit_impl(x_values.val, y_values.val, enc_divisor.val[1])
        first       == [program |-> "fit", args |-> args, ok |-> ok]
        again       == [program |-> "fit", args |-> args, ok |-> TRUE]
    IN  [runs  |-> IF ok THEN <<first>> ELSE <<first, again>>,
         panic |-> <<>>,
         model |-> <<[intercept   |-> Ct(k, <<results[1]>>),
                      coefficient |-> Ct(k, <<results[2]>>)]>>]

\* model.rs:125-156.  ok is the outcome of Runtime::run.
fit(self, x_values, y_values, ok) ==
    LET k           == self.client_public_key.id
        enc_divisor == Ct(k, <<DIVISOR>>)
        results     == fit_impl(x_values.val, y_values.val, enc_divisor.val[1])
    IN  [runs  |-> <<[program |-> "fit",
                      args |-> <<x_values, y_values, enc_divisor>>, ok |-> ok]>>,
         panic |-> IF ok THEN <<>> ELSE <<UNWRAP_MSG>>,
         model |-> IF ok
                   THEN <<[intercept   |-> Ct(k, <<results[1]>>),
                           coefficient |-> Ct(k, <<results[2]>>)]>>
                   ELSE <<>>]

\* model.rs:158-172
predict(self, m, x, ok) ==
    LET k == self.client_public_key.id
    IN  [runs   |-> <<[program |-> "predict",
                       args |-> <<m.intercept, m.coefficient, x>>, ok |-> ok]>>,
         panic  |-> IF ok THEN <<>> ELSE <<UNWRAP_MSG>>,
         result |-> IF ok
                    THEN <<Ct(k, <<predict_impl(m.intercept.val[1],
                                                m.coefficient.val[1], x.val[1])>>)>>
                    ELSE <<>>]

RECURSIVE PredictListLoop(_, _, _, _, _, _)
PredictListLoop(self, m, x_values, fail_at, i, acc) ==
    IF i > Len(x_values) \/ acc.panic # <<>> THEN acc
    ELSE LET p == predict(self, m, x_values[i], i # fail_at)
         IN  PredictListLoop(self, m, x_values, fail_at, i + 1,
                             [runs   |-> acc.runs \o p.runs,
                              panic  |-> p.panic,
                              result |-> acc.result \o p.result])

\* A predict_list whose loop starts at the second element.
predict_list_skipping(self, m, x_values, fail_at) ==
    PredictListLoop(self, m, x_values, fail_at, 2,
                    [runs |-> <<>>, panic |-> <<>>, result |-> <<>>])

\* model.rs:174-184.  fail_at is the index whose Runtime::run fails, 0 for none.
predict_list(self, m, x_values, fail_at) ==
    PredictListLoop(self, m, x_values, fail_at, 1,
                    [runs |-> <<>>, panic |-> <<>>, result |-> <<>>])

(***************************************************************************)
(* State                                                                   *)
(***************************************************************************)
VARIABLES
    \* --- SpecMath: one run of a compiled program on encrypted inputs ---
    in_x,        \* plaintext x vector (integral f64 values)
    in_y,        \* plaintext y vector
    in_v,        \* scalar input of predict (0 until predict runs)
    program,     \* name of the FHE program that was run, "none" before
    output,      \* decrypted results of the run, a sequence of rationals
    \* --- Spec: the Client / Server flow of model.rs ---
    client,       \* Client { public_key, private_key }
    server,       \* <<>> before Server::new, then <<[client_public_key]>>
    compilations, \* Compiler::compile() calls so far, per side
    enc_x_train,  \* <<>> or <<ciphertext>>: encrypt_vec result held by the caller
    enc_y_train,  \* <<>> or <<ciphertext>>
    model,        \* <<>> or <<LinearRegressionEncryptedModel>>: the latest fit's result
    enc_x_test,   \* encrypted test inputs, in the order they were encrypted
    enc_y_pred,   \* ciphertexts returned by the latest predict / predict_list
    y_pred,       \* <<>> or <<f64>>: the latest decrypt's result
    panic,        \* <<>> or <<[op, msg]>>: the flow's thread has panicked
    runs,         \* the Runtime::run invocations of the latest call: [program, args, ok, call]
    calls,        \* Server / LinearRegression calls made so far
    server_view,  \* every value stored in, or passed to, Server / LinearRegression
    decryptions,  \* who called Runtime::decrypt, with which key
    predictions,  \* [x, value] of every prediction made with the current model
    last          \* the latest call: [op, plain arguments, plain results]

mathVars == <<in_x, in_y, in_v, program, output>>

flowVars == <<client, server, compilations, enc_x_train, enc_y_train, model,
              enc_x_test, enc_y_pred, y_pred, panic, runs, calls,
              server_view, decryptions, predictions, last>>

vars == <<mathVars, flowVars>>

\* The key pair Client::new generates, and a key pair of some other client.
CLIENT_KEY == "client"

OTHER_KEY == "other"

(***************************************************************************)
(* Inputs of SpecMath                                                      *)
(***************************************************************************)
\* model.rs:189 x_train, math.rs:125 INPUTS_X
X_TRAIN == <<1, 2, 3, 4, 5>>

\* model.rs:190 y_train
Y_TRAIN == <<2, 4, 6, 8, 10>>

\* model.rs:192 x_test[0], the input the end-to-end test predicts on
X_TEST_0 == 6

Vectors == [1..VEC_SIZE -> 0..MaxVal] \cup {X_TRAIN}

Coefs == (-MaxCoef)..MaxCoef

\* y[i] = a + b * x[i]
Linear(a, b, x) == [i \in 1..VEC_SIZE |-> a + b * x[i]]

Scalars == {0, MaxVal, X_TEST_0}

\* math.rs encrypt_vec: every element goes through Rational::try_from.
ToRationals(v) == [i \in 1..VEC_SIZE |-> FromInt(v[i])]

FlowIdle ==
    /\ client = [public_key  |-> [kind |-> "public", id |-> CLIENT_KEY],
                 private_key |-> [kind |-> "private", id |-> CLIENT_KEY]]
    /\ server = <<>>
    /\ compilations = [client |-> 1, server |-> 0]
    /\ enc_x_train = <<>>
    /\ enc_y_train = <<>>
    /\ model = <<>>
    /\ enc_x_test = <<>>
    /\ enc_y_pred = <<>>
    /\ y_pred = <<>>
    /\ panic = <<>>
    /\ runs = <<>>
    /\ calls = 0
    /\ server_view = {}
    /\ decryptions = {}
    /\ predictions = {}
    /\ last = [op |-> "Client::new", plain |-> <<>>, out |-> <<>>]

InitMath ==
    /\ FlowIdle
    /\ in_x \in Vectors
    /\ in_y \in Vectors \cup {Linear(a, b, in_x) : a \in Coefs, b \in Coefs}
    /\ in_v = 0
    /\ program = "none"
    /\ output = <<>>

RunMean ==
    /\ program = "none"
    /\ program' = "mean"
    /\ output' = <<mean_impl(ToRationals(in_x), DIVISOR)>>
    /\ UNCHANGED <<in_x, in_y, in_v, flowVars>>

RunVariance ==
    /\ program = "none"
    /\ program' = "variance"
    /\ output' = <<variance_impl(ToRationals(in_x), DIVISOR)>>
    /\ UNCHANGED <<in_x, in_y, in_v, flowVars>>

RunCovariance ==
    /\ program = "none"
    /\ program' = "covariance"
    /\ output' = <<covariance_impl(ToRationals(in_x), ToRationals(in_y), DIVISOR)>>
    /\ UNCHANGED <<in_x, in_y, in_v, flowVars>>

RunMeanAbsoluteError ==
    /\ program = "none"
    /\ program' = "mean_absolute_error"
    /\ output' = <<mean_absolute_error_impl(ToRationals(in_x), ToRationals(in_y),
                                            DIVISOR)>>
    /\ UNCHANGED <<in_x, in_y, in_v, flowVars>>

RunFit ==
    /\ program = "none"
    /\ program' = "fit"
    /\ output' = fit_impl(ToRationals(in_x), ToRationals(in_y), DIVISOR)
    /\ UNCHANGED <<in_x, in_y, in_v, flowVars>>

\* test_fhe_predict: the model is fit_impl of the inputs, then predict on v.
RunPredict ==
    /\ program = "none"
    /\ \E v \in Scalars :
          LET m == fit_impl(ToRationals(in_x), ToRationals(in_y), DIVISOR)
          IN  /\ in_v' = v
              /\ output' = <<predict_impl(m[1], m[2], FromInt(v))>>
    /\ program' = "predict"
    /\ UNCHANGED <<in_x, in_y, flowVars>>

NextMath ==
    \/ RunMean
    \/ RunVariance
    \/ RunCovariance
    \/ RunMeanAbsoluteError
    \/ RunFit
    \/ RunPredict

SpecMath == InitMath /\ [][NextMath]_vars

(***************************************************************************)
(* Properties of the circuit library, checked under SpecMath               *)
(***************************************************************************)
RECURSIVE SumFrom(_, _)
SumFrom(v, i) == IF i > VEC_SIZE THEN 0 ELSE v[i] + SumFrom(v, i + 1)

\* The sum of the elements of an integer vector.
SumInt(v) == SumFrom(v, 1)

RECURSIVE SumSqDevFrom(_, _, _)
SumSqDevFrom(v, m, i) ==
    IF i > VEC_SIZE THEN 0
    ELSE (v[i] * m[2] - m[1]) * (v[i] * m[2] - m[1]) + SumSqDevFrom(v, m, i + 1)

AllEqual(v) == \A i \in 1..VEC_SIZE : v[i] = v[1]

\* The (a, b) of Coefs for which in_y is the line a + b * in_x.
Lines == {ab \in Coefs \X Coefs : in_y = Linear(ab[1], ab[2], in_x)}

\* C1: for a training set in perfect linear relation y[i] = a + b * x[i], with the
\* elements of x not all equal and the divisor 1 / VEC_SIZE, fit returns exactly
\* (a, b) and predict on v, given that model, returns a + b * v; for
\* x = [1,2,3,4,5], y = [2,4,6,8,10] that is (0, 2), and 12 for v = 6.
C1_FitRecoversLine ==
    /\ (program = "fit" /\ ~AllEqual(in_x)) =>
          \A ab \in Lines : output = <<F64(ab[1]), F64(ab[2])>>
    /\ (program = "predict" /\ ~AllEqual(in_x)) =>
          \A ab \in Lines : output = <<F64(ab[1] + ab[2] * in_v)>>
    /\ (program = "fit" /\ in_x = X_TRAIN /\ in_y = Y_TRAIN) =>
          output = <<F64(0), F64(2)>>
    /\ (program = "predict" /\ in_x = X_TRAIN /\ in_y = Y_TRAIN /\ in_v = X_TEST_0) =>
          output = <<F64(12)>>

\* The end-to-end scenario: the model fitted on x_train, y_train predicts 12 for 6.
C1_Witness ==
    /\ program = "predict"
    /\ in_x = X_TRAIN /\ in_y = Y_TRAIN /\ in_v = X_TEST_0
    /\ output = <<F64(12)>>

\* C9: mean_absolute_error(y_pred, y_test, divisor) is the mean SIGNED error:
\* (sum of (y_pred[i] - y_test[i])) * divisor, which is mean(y_pred) - mean(y_test),
\* and swapping the two vectors negates it.
C9_MeanSignedError ==
    program = "mean_absolute_error" =>
        LET x      == ToRationals(in_x)
            y      == ToRationals(in_y)
            signed == Norm(<<(SumInt(in_x) - SumInt(in_y)) * DIVISOR[1], DIVISOR[2]>>)
        IN  /\ output = <<signed>>
            /\ output[1] = RSub(mean_impl(x, DIVISOR), mean_impl(y, DIVISOR))
            /\ mean_absolute_error_impl(y, x, DIVISOR) = RSub(F64(0), output[1])

\* Two different vectors whose errors cancel: the result is 0.
C9_Witness ==
    /\ program = "mean_absolute_error"
    /\ in_x # in_y
    /\ \E i \in 1..VEC_SIZE : in_x[i] > in_y[i]
    /\ output = <<F64(0)>>

\* C10: variance(x, divisor) is (sum of (x[i] - mean(x))^2) * divisor and equals
\* covariance(x, x, divisor); covariance is symmetric in x and y; with divisor
\* 1 / VEC_SIZE the variance is never negative and is 0 exactly when all elements
\* of x are equal, which is exactly when fit divides by zero;
\* variance([1,2,3,4,5], 1/5) = 2.
C10_Variance ==
    /\ program = "variance" =>
          LET x  == ToRationals(in_x)
              m  == Norm(<<SumInt(in_x) * DIVISOR[1], DIVISOR[2]>>)
              ss == SumSqDevFrom(in_x, m, 1)
          IN  /\ output = <<Norm(<<ss * DIVISOR[1], m[2] * m[2] * DIVISOR[2]>>)>>
              /\ output[1] = covariance_impl(x, x, DIVISOR)
              /\ output[1][2] > 0 /\ output[1][1] >= 0
              /\ (output[1] = F64(0)) <=> AllEqual(in_x)
              /\ (in_x = X_TRAIN) => output = <<F64(2)>>
    /\ program = "covariance" =>
          output = <<covariance_impl(ToRationals(in_y), ToRationals(in_x), DIVISOR)>>
    /\ program = "fit" =>
          /\ AllEqual(in_x) <=> (variance_impl(ToRationals(in_x), DIVISOR) = F64(0))
          /\ AllEqual(in_x) <=> ~IsNumber(output[2])

C10_Witness ==
    /\ program = "variance"
    /\ in_x = X_TRAIN
    /\ output = <<F64(2)>>

(***************************************************************************)
(* The Client / Server flow (model.rs)                                     *)
(***************************************************************************)
\* Server / LinearRegression calls in one behaviour.
MaxCalls == 3
\* Encrypted test inputs in one behaviour.
MaxList == 2

\* model.rs:192 x_test[1]
X_TEST_1 == 7

\* model.rs:193 y_test
Y_TEST == <<12, 14, 16, 18, 20>>

\* Plaintext vectors handed to encrypt_vec that it must reject: one too short,
\* one too long, empty, and two with an element that has no Rational.
BadVecInputs ==
    { F64Vec(SubSeq(X_TRAIN, 1, VEC_SIZE - 1)), F64Vec(X_TRAIN \o <<X_TEST_0>>),
      <<>>, [F64Vec(X_TRAIN) EXCEPT ![2] = NAN], <<NAN>> }

\* The vectors encrypted as x values and as y values.
VecInputs(slot) ==
    BadVecInputs \cup
        (IF slot = "x" THEN {F64Vec(X_TRAIN)} ELSE {F64Vec(Y_TRAIN), F64Vec(X_TRAIN)})

ScalarInputs == {F64(X_TEST_0), F64(X_TEST_1), NAN}

\* y_test slices handed to evaluate.
YTests == {F64Vec(SubSeq(Y_TEST, 1, n)) : n \in {0, 1, VEC_SIZE}}

\* A ciphertext some other client produced under its own key.
FOREIGN_CT == Ct(OTHER_KEY, <<F64(X_TEST_0)>>)

\* What the server side gets to see of a ciphertext: that it is one, and its key.
Seen(c) == [kind |-> "ciphertext", id |-> c.key]

Range(q) == {q[i] : i \in 1..Len(q)}

Tagged(rs, c) ==
    [i \in 1..Len(rs) |->
        [program |-> rs[i].program, args |-> rs[i].args, ok |-> rs[i].ok, call |-> c]]

Panicked(op, msg) == IF msg = <<>> THEN <<>> ELSE <<[op |-> op, msg |-> msg[1]]>>

MathIdle ==
    /\ in_x = X_TRAIN
    /\ in_y = Y_TRAIN
    /\ in_v = 0
    /\ program = "none"
    /\ output = <<>>

\* After Client::new (model.rs:28-41): one compilation, one key pair.
Init == FlowIdle /\ MathIdle

\* A Server::new that is handed, and keeps, the Client's private key.
ServerNewWithPrivateKey ==
    /\ panic = <<>>
    /\ server = <<>>
    /\ server' = <<[client_public_key |-> client.private_key]>>
    /\ server_view' = server_view \cup {client.private_key}
    /\ last' = [op |-> "Server::new", plain |-> <<>>, out |-> <<>>]
    /\ UNCHANGED <<client, compilations, enc_x_train, enc_y_train, model, enc_x_test,
                   enc_y_pred, y_pred, panic, runs, calls, decryptions,
                   predictions, mathVars>>

\* model.rs:75-79
ServerNew ==
    /\ panic = <<>>
    /\ server = <<>>
    /\ server' = <<[client_public_key |-> client.public_key]>>
    /\ server_view' = server_view \cup {client.public_key}
    /\ last' = [op |-> "Server::new", plain |-> <<>>, out |-> <<>>]
    /\ UNCHANGED <<client, compilations, enc_x_train, enc_y_train, model, enc_x_test,
                   enc_y_pred, y_pred, panic, runs, calls, decryptions,
                   predictions, mathVars>>

\* client.encrypt_vec(&inputs), the result bound to enc_x_train or enc_y_train
ClientEncryptVec ==
    /\ panic = <<>>
    /\ \E slot \in {"x", "y"} : \E inputs \in VecInputs(slot) :
          LET r == encrypt_vec(client.public_key, inputs)
          IN  /\ panic' = Panicked("encrypt_vec", r.panic)
              /\ enc_x_train' = IF slot = "x" /\ r.panic = <<>> THEN r.ct ELSE enc_x_train
              /\ enc_y_train' = IF slot = "y" /\ r.panic = <<>> THEN r.ct ELSE enc_y_train
              /\ last' = [op |-> "encrypt_vec", plain |-> inputs, out |-> <<>>]
    /\ UNCHANGED <<client, server, compilations, model, enc_x_test, enc_y_pred, y_pred,
                   runs, calls, server_view, decryptions, predictions, mathVars>>

\* client.encrypt(input), the result pushed on the list of test inputs
ClientEncrypt ==
    /\ panic = <<>>
    /\ Len(enc_x_test) < MaxList
    /\ \E input \in ScalarInputs :
          LET r == encrypt(client.public_key, input)
          IN  /\ panic' = Panicked("encrypt", r.panic)
              /\ enc_x_test' = enc_x_test \o r.ct
              /\ last' = [op |-> "encrypt", plain |-> <<input>>, out |-> <<>>]
    /\ UNCHANGED <<client, server, compilations, enc_x_train, enc_y_train, model,
                   enc_y_pred, y_pred, runs, calls, server_view, decryptions,
                   predictions, mathVars>>

\* model.rs:81-87: server.fit(enc_x_train, enc_y_train); both are moved in.
ServerFit ==
    /\ panic = <<>>
    /\ server # <<>> /\ enc_x_train # <<>> /\ enc_y_train # <<>>
    /\ calls < MaxCalls
    /\ \E ok \in BOOLEAN :
          LET lr == LinearRegression_new(server[1].client_public_key)
              r  == fit(lr, enc_x_train[1], enc_y_train[1], ok)
          IN  /\ compilations' = [compilations EXCEPT !.server = @ + lr.compiled]
              /\ runs' = Tagged(r.runs, calls + 1)
              /\ panic' = Panicked("fit", r.panic)
              /\ model' = IF r.panic = <<>> THEN r.model ELSE model
              /\ predictions' = IF r.panic = <<>> THEN {} ELSE predictions
              /\ server_view' = server_view \cup
                    {lr.client_public_key, Seen(enc_x_train[1]), Seen(enc_y_train[1])}
    /\ calls' = calls + 1
    /\ enc_x_train' = <<>>
    /\ enc_y_train' = <<>>
    /\ last' = [op |-> "fit", plain |-> <<>>, out |-> <<>>]
    /\ UNCHANGED <<client, server, enc_x_test, enc_y_pred, y_pred, decryptions,
                   mathVars>>

\* A predict that stores its result in the model's intercept.
ServerPredictStoring ==
    /\ panic = <<>>
    /\ server # <<>> /\ model # <<>>
    /\ calls < MaxCalls
    /\ \E i \in 1..Len(enc_x_test), ok \in BOOLEAN :
          LET lr == LinearRegression_new(server[1].client_public_key)
              x  == enc_x_test[i]
              r  == predict(lr, model[1], x, ok)
          IN  /\ compilations' = [compilations EXCEPT !.server = @ + lr.compiled]
              /\ runs' = Tagged(r.runs, calls + 1)
              /\ panic' = Panicked("predict", r.panic)
              /\ enc_y_pred' = IF r.panic = <<>> THEN r.result ELSE enc_y_pred
              /\ model' = IF r.panic = <<>>
                          THEN <<[model[1] EXCEPT !.intercept = r.result[1]]>>
                          ELSE model
              /\ predictions' = predictions \cup
                    {[x |-> x.val[1], value |-> r.result[j].val[1]] :
                        j \in 1..Len(r.result)}
              /\ server_view' = server_view \cup
                    {lr.client_public_key, Seen(model[1].intercept),
                     Seen(model[1].coefficient), Seen(x)}
    /\ calls' = calls + 1
    /\ last' = [op |-> "predict", plain |-> <<>>, out |-> <<>>]
    /\ UNCHANGED <<client, server, enc_x_train, enc_y_train, enc_x_test, y_pred,
                   decryptions, mathVars>>

\* model.rs:89-95: server.predict(&model, &x)
ServerPredict ==
    /\ panic = <<>>
    /\ server # <<>> /\ model # <<>>
    /\ calls < MaxCalls
    /\ \E i \in 1..Len(enc_x_test), ok \in BOOLEAN :
          LET lr == LinearRegression_new(server[1].client_public_key)
              x  == enc_x_test[i]
              r  == predict(lr, model[1], x, ok)
          IN  /\ compilations' = [compilations EXCEPT !.server = @ + lr.compiled]
              /\ runs' = Tagged(r.runs, calls + 1)
              /\ panic' = Panicked("predict", r.panic)
              /\ enc_y_pred' = IF r.panic = <<>> THEN r.result ELSE enc_y_pred
              /\ predictions' = predictions \cup
                    {[x |-> x.val[1], value |-> r.result[j].val[1]] :
                        j \in 1..Len(r.result)}
              /\ server_view' = server_view \cup
                    {lr.client_public_key, Seen(model[1].intercept),
                     Seen(model[1].coefficient), Seen(x)}
    /\ calls' = calls + 1
    /\ last' = [op |-> "predict", plain |-> <<>>, out |-> <<>>]
    /\ UNCHANGED <<client, server, enc_x_train, enc_y_train, model, enc_x_test, y_pred,
                   decryptions, mathVars>>

\* LinearRegression::new(public key).predict_list(&model, &enc_x_test)
LinearRegressionPredictList ==
    /\ panic = <<>>
    /\ server # <<>> /\ model # <<>>
    /\ calls < MaxCalls
    /\ \E fail_at \in 0..Len(enc_x_test) :
          LET lr == LinearRegression_new(server[1].client_public_key)
              r  == predict_list(lr, model[1], enc_x_test, fail_at)
          IN  /\ compilations' = [compilations EXCEPT !.server = @ + lr.compiled]
              /\ runs' = Tagged(r.runs, calls + 1)
              /\ panic' = Panicked("predict_list", r.panic)
              /\ enc_y_pred' = IF r.panic = <<>> THEN r.result ELSE enc_y_pred
              /\ predictions' = predictions \cup
                    {[x |-> r.runs[j].args[3].val[1], value |-> r.result[j].val[1]] :
                        j \in 1..Len(r.result)}
              /\ server_view' = server_view \cup
                    ({lr.client_public_key, Seen(model[1].intercept),
                      Seen(model[1].coefficient)}
                     \cup {Seen(enc_x_test[i]) : i \in 1..Len(enc_x_test)})
    /\ calls' = calls + 1
    /\ last' = [op |-> "predict_list", plain |-> <<>>, out |-> <<>>]
    /\ UNCHANGED <<client, server, enc_x_train, enc_y_train, model, enc_x_test, y_pred,
                   decryptions, mathVars>>

\* let y_pred = client.decrypt(&c)
ClientDecrypt ==
    /\ panic = <<>>
    /\ \E c \in Range(enc_y_pred) \cup {FOREIGN_CT}, reports_error \in BOOLEAN :
          LET r == decrypt(client.private_key, c, reports_error)
          IN  /\ panic' = Panicked("decrypt", r.panic)
              /\ y_pred' = IF r.panic = <<>> THEN r.value ELSE y_pred
    /\ decryptions' = decryptions \cup {[by |-> "client", key |-> client.private_key]}
    /\ last' = [op |-> "decrypt", plain |-> <<>>, out |-> <<>>]
    /\ UNCHANGED <<client, server, compilations, enc_x_train, enc_y_train, model,
                   enc_x_test, enc_y_pred, runs, calls, server_view, predictions,
                   mathVars>>

\* client.evaluate(&y_test, &[y_pred]); the test drops the returned value.
ClientEvaluate ==
    /\ panic = <<>>
    /\ \E y_test \in YTests :
          LET r == evaluate(y_test, y_pred)
          IN  /\ panic' = Panicked("evaluate", r.panic)
              /\ last' = [op |-> "evaluate", plain |-> y_test, out |-> r.value]
    /\ UNCHANGED <<client, server, compilations, enc_x_train, enc_y_train, model,
                   enc_x_test, enc_y_pred, y_pred, runs, calls, server_view,
                   decryptions, predictions, mathVars>>

Next ==
    \/ ServerNew
    \/ ClientEncryptVec
    \/ ClientEncrypt
    \/ ServerFit
    \/ ServerPredict
    \/ LinearRegressionPredictList
    \/ ClientDecrypt
    \/ ClientEvaluate

Spec == Init /\ [][Next]_vars

(***************************************************************************)
(* Properties of the flow, checked under Spec                              *)
(***************************************************************************)
FailedRuns == {i \in 1..Len(runs) : ~runs[i].ok}

\* C2 as the specification states it: encrypt_vec on an input whose length is not
\* VEC_SIZE returns a ShapeError to its caller, so the caller goes on (no panic)
\* and holds no ciphertext of that input.
C2_ShapeErrorReturned ==
    (last.op = "encrypt_vec" /\ Len(last.plain) # VEC_SIZE) => panic = <<>>

\* C2, amended: encrypt_vec on an input whose length is not VEC_SIZE panics (no
\* error value is returned); no ciphertext is produced and no program is run; an
\* input that is accepted has exactly VEC_SIZE elements, each of them encrypted as
\* given, so nothing is cut or filled in.
C2_WrongLengthPanics ==
    [][ last'.op = "encrypt_vec" =>
          IF Len(last'.plain) # VEC_SIZE
          THEN /\ panic' # <<>>
               /\ panic'[1].op = "encrypt_vec"
               /\ enc_x_train' = enc_x_train /\ enc_y_train' = enc_y_train
               /\ runs' = runs /\ calls' = calls
          ELSE panic' = <<>> =>
                  \E c \in Range(enc_x_train') \cup Range(enc_y_train') :
                      /\ Len(c.val) = VEC_SIZE
                      /\ \A i \in 1..VEC_SIZE : c.val[i] = last'.plain[i] ]_vars

\* An input of VEC_SIZE + 1 elements was rejected with the length panic.
C2_Witness ==
    /\ last.op = "encrypt_vec"
    /\ Len(last.plain) = VEC_SIZE + 1
    /\ panic = <<[op |-> "encrypt_vec", msg |-> LENGTH_MSG]>>

\* C3: when predict_list returns, predict was invoked exactly once per element of
\* x_values, in index order, and the i-th entry of the returned list is
\* predict(model, x_values[i]); for the empty list nothing is invoked and the
\* empty list is returned.
C3_PredictListInOrder ==
    (last.op = "predict_list" /\ panic = <<>>) =>
        /\ Len(enc_y_pred) = Len(enc_x_test)
        /\ Len(runs) = Len(enc_x_test)
        /\ \A i \in 1..Len(enc_x_test) :
              /\ runs[i].program = "predict"
              /\ runs[i].ok
              /\ runs[i].call = calls
              /\ runs[i].args = <<model[1].intercept, model[1].coefficient, enc_x_test[i]>>
              /\ <<enc_y_pred[i]>> =
                    predict(LinearRegression_new(server[1].client_public_key),
                            model[1], enc_x_test[i], TRUE).result

\* predict_list returned for two different inputs.
C3_Witness ==
    /\ last.op = "predict_list" /\ panic = <<>>
    /\ Len(enc_x_test) = 2
    /\ enc_x_test[1] # enc_x_test[2]
    /\ Len(enc_y_pred) = 2
    /\ enc_y_pred[1] # enc_y_pred[2]

\* C4: predict and predict_list leave the model as fit returned it, and two
\* predictions made with the same model on the same input have the same value.
C4_ModelReadOnly ==
    /\ [][ last'.op \in {"predict", "predict_list"} => model' = model ]_vars
    /\ [](\A p \in predictions, q \in predictions : p.x = q.x => p.value = q.value)

\* predict ran twice on the same input with one model, after an earlier prediction.
C4_Witness ==
    /\ last.op = "predict_list" /\ panic = <<>>
    /\ calls = 3
    /\ Len(enc_x_test) = 2
    /\ enc_x_test[1] = enc_x_test[2]
    /\ enc_y_pred[1] = enc_y_pred[2]
    /\ Cardinality(predictions) = 1

\* C5: over any sequence of Server.fit and Server.predict calls on one Server, the
\* number of compilations on the Server side stays at one.
C5_CompiledOnce ==
    (calls >= 1 /\ last.op \in {"fit", "predict"}) => compilations.server = 1

\* C6: the Server and the LinearRegression object hold and receive only the
\* Client's public key and ciphertexts, never the private key, and only the Client
\* decrypts.
C6_PrivateKeyStaysWithClient ==
    /\ \A v \in server_view :
          \/ v = client.public_key
          \/ v.kind = "ciphertext"
    /\ client.private_key \notin server_view
    /\ server # <<>> => server[1] = [client_public_key |-> client.public_key]
    /\ \A d \in decryptions : d.by = "client"

\* The Server has fitted and predicted, and the Client has decrypted.
C6_Witness ==
    /\ last.op = "decrypt" /\ panic = <<>>
    /\ calls >= 2
    /\ model # <<>>
    /\ y_pred = <<F64(12)>>
    /\ [kind |-> "ciphertext", id |-> CLIENT_KEY] \in server_view

C8_TestRunsToCompletion ==
    (last.op = "evaluate" /\ last.plain = F64Vec(Y_TEST) /\ y_pred = <<F64(12)>>) =>
        (panic = <<>> /\ last.out # <<>>)

====
